---- MODULE Spec2Model ----
(***************************************************************************)
(* Model of the dice-stats-lang scanner: token::read_token (src/token.rs)  *)
(* driven over one in-memory character stream.  Characters are one-letter  *)
(* strings, a stream is a sequence of characters, and the Peekable<Chars>  *)
(* cursor is the number of characters already consumed.                    *)
(***************************************************************************)
EXTENDS Integers, Sequences, FiniteSets, TLC

(***************************************************************************)
(* Bounds of the model.                                                    *)
(***************************************************************************)
\* an input is the concatenation of at most MaxLen pieces
MaxLen == 3
\* number of read_token calls made after the input is exhausted
MaxEofCalls == 2

(***************************************************************************)
(* Character classes.                                                      *)
(***************************************************************************)
I32Max == 2147483647

DigitChars == {"0", "1", "2", "3", "4", "5", "6", "7", "8", "9"}

LetterChars ==
    {"a", "b", "c", "d", "e", "f", "g", "h", "i", "j", "k", "l", "m",
     "n", "o", "p", "q", "r", "s", "t", "u", "v", "w", "x", "y", "z",
     "A", "B", "C", "D", "E", "F", "G", "H", "I", "J", "K", "L", "M",
     "N", "O", "P", "Q", "R", "S", "T", "U", "V", "W", "X", "Y", "Z"}

PunctChars == {"(", ")", "{", "}", "+", "-", "*", "/", ".", "!"}

is_ascii_digit(c) == c \in DigitChars

is_ascii_alphabetic(c) == c \in LetterChars

\* variant: digits continue an identifier
is_keyword_character_digits(c) == is_ascii_alphabetic(c) \/ c = "_" \/ is_ascii_digit(c)

\* variant: an underscore ends an identifier
is_keyword_character_letters(c) == is_ascii_alphabetic(c)

is_keyword_character(c) == is_ascii_alphabetic(c) \/ c = "_"

\* variant: every whitespace character is skipped
is_skipped_any_whitespace(c) == c \in {" ", "\n", "\t", "\r"}

\* the arms of the match that produce no token
is_skipped(c) == c \in {" ", "\n"}

\* the value current_column is reset to by the '\n' arm
NewlineColumn == 0

DigitValue(c) ==
    CASE c = "0" -> 0 [] c = "1" -> 1 [] c = "2" -> 2 [] c = "3" -> 3
      [] c = "4" -> 4 [] c = "5" -> 5 [] c = "6" -> 6 [] c = "7" -> 7
      [] c = "8" -> 8 [] c = "9" -> 9

\* variant: the kinds of '.' and '!' are exchanged
OperatorOf_swapped(c) ==
    CASE c = "(" -> "LeftParen"  [] c = ")" -> "RightParen"
      [] c = "{" -> "LeftBrace"  [] c = "}" -> "RightBrace"
      [] c = "+" -> "Plus"       [] c = "-" -> "Minus"
      [] c = "*" -> "Star"       [] c = "/" -> "Slash"
      [] c = "." -> "Bang"       [] c = "!" -> "Dot"

\* the ten single-character arms of the match
OperatorOf(c) ==
    CASE c = "(" -> "LeftParen"  [] c = ")" -> "RightParen"
      [] c = "{" -> "LeftBrace"  [] c = "}" -> "RightBrace"
      [] c = "+" -> "Plus"       [] c = "-" -> "Minus"
      [] c = "*" -> "Star"       [] c = "/" -> "Slash"
      [] c = "." -> "Dot"        [] c = "!" -> "Bang"

(***************************************************************************)
(* Values returned by read_token.                                          *)
(***************************************************************************)
Operator(op) == [kind |-> "Operator", op |-> op]

LitInt(n) == [kind |-> "Literal", lit |-> "Int", int |-> n]

LitDie(long) == [kind |-> "Literal", lit |-> "Die", die |-> long]

LitUnrecognized(text) == [kind |-> "Literal", lit |-> "Unrecognized", text |-> text]

Token(token_type, line, column) ==
    [token_type |-> token_type, line |-> line, column |-> column]

Ok(token) == [tag |-> "Ok", token |-> token]

UnsupportedToken(text) == [tag |-> "Err", err |-> "UnsupportedToken", text |-> text]

InvalidNumberToken(text) == [tag |-> "Err", err |-> "InvalidNumberToken", text |-> text]

(***************************************************************************)
(* n.parse::<i32>() on a non-empty string of ASCII digits: the digits are  *)
(* accumulated left to right with checked multiplication and addition, so  *)
(* the result is an error as soon as the accumulator leaves the i32 range. *)
(***************************************************************************)
RECURSIVE parse_from(_, _, _)
parse_from(s, i, acc) ==
    IF i > Len(s) THEN [ok |-> TRUE, value |-> acc]
    ELSE LET d == DigitValue(s[i]) IN
         IF acc > I32Max \div 10 THEN [ok |-> FALSE, value |-> 0]
         ELSE IF acc * 10 > I32Max - d THEN [ok |-> FALSE, value |-> 0]
         ELSE parse_from(s, i + 1, acc * 10 + d)

\* variant: a value out of range is clamped to the largest i32
RECURSIVE parse_saturating_from(_, _, _)
parse_saturating_from(s, i, acc) ==
    IF i > Len(s) THEN [ok |-> TRUE, value |-> acc]
    ELSE LET d == DigitValue(s[i]) IN
         IF acc > I32Max \div 10 THEN [ok |-> TRUE, value |-> I32Max]
         ELSE IF acc * 10 > I32Max - d THEN [ok |-> TRUE, value |-> I32Max]
         ELSE parse_saturating_from(s, i + 1, acc * 10 + d)

parse_saturating(s) == parse_saturating_from(s, 1, 0)

parse(s) == parse_from(s, 1, 0)

(***************************************************************************)
(* The two greedy loops: while the peeked character belongs to the run,    *)
(* take it with next(), push it on the collected text and add one to       *)
(* current_column.  p is the number of characters consumed so far.         *)
(***************************************************************************)
\* variant: the loop body never runs, the run is its first digit
digit_run_single(in, p, col, n) == [pos |-> p, column |-> col, n |-> n]

\* variant: the character that ends the run is taken with next(), not peeked
RECURSIVE digit_run_overconsume(_, _, _, _)
digit_run_overconsume(in, p, col, n) ==
    IF p < Len(in) /\ is_ascii_digit(in[p + 1])
    THEN digit_run_overconsume(in, p + 1, col + 1, Append(n, in[p + 1]))
    ELSE [pos |-> IF p < Len(in) THEN p + 1 ELSE p, column |-> col, n |-> n]

RECURSIVE digit_run(_, _, _, _)
digit_run(in, p, col, n) ==
    IF p < Len(in) /\ is_ascii_digit(in[p + 1])
    THEN digit_run(in, p + 1, col + 1, Append(n, in[p + 1]))
    ELSE [pos |-> p, column |-> col, n |-> n]

RECURSIVE keyword_run(_, _, _, _)
keyword_run(in, p, col, chars) ==
    IF p < Len(in) /\ is_keyword_character(in[p + 1])
    THEN keyword_run(in, p + 1, col + 1, Append(chars, in[p + 1]))
    ELSE [pos |-> p, column |-> col, chars |-> chars]

\* variant: the keyword table also holds k, keep, drop, explode and emphasis
classify_keep(literal) ==
    IF literal = <<"d">> THEN LitDie(FALSE)
    ELSE IF literal = <<"d", "i", "e">> THEN LitDie(TRUE)
    ELSE IF literal = <<"k">> THEN [kind |-> "Literal", lit |-> "Keep", keep |-> FALSE]
    ELSE IF literal = <<"k", "e", "e", "p">>
    THEN [kind |-> "Literal", lit |-> "Keep", keep |-> TRUE]
    ELSE IF literal = <<"d", "r", "o", "p">> THEN [kind |-> "Literal", lit |-> "Drop"]
    ELSE IF literal = <<"e", "x", "p", "l", "o", "d", "e">>
    THEN [kind |-> "Literal", lit |-> "Explode"]
    ELSE IF literal = <<"e", "m", "p", "h", "a", "s", "i", "s">>
    THEN [kind |-> "Literal", lit |-> "Emphasis"]
    ELSE LitUnrecognized(literal)

\* the match on the collected identifier text
classify(literal) ==
    IF literal = <<"d">> THEN LitDie(FALSE)
    ELSE IF literal = <<"d", "i", "e">> THEN LitDie(TRUE)
    ELSE LitUnrecognized(literal)

\* variant: the token carries the column of the last digit of the run
digit_arm_last_column(in, p, line, col) ==
    LET run == digit_run(in, p, col, <<in[p]>>)
        parsed == parse(run.n)
    IN  IF parsed.ok
        THEN [pos |-> run.pos, line |-> line, column |-> run.column + 1,
              ret |-> Ok(Token(LitInt(parsed.value), line, run.column))]
        ELSE [pos |-> run.pos, line |-> line, column |-> run.column,
              ret |-> InvalidNumberToken(run.n)]

\* the digit arm, entered after the first digit (at index p) was consumed
digit_arm(in, p, line, col) ==
    LET starting_column == col
        run == digit_run(in, p, col, <<in[p]>>)
        parsed == parse(run.n)
    IN  IF parsed.ok
        THEN [pos |-> run.pos, line |-> line, column |-> run.column + 1,
              ret |-> Ok(Token(LitInt(parsed.value), line, starting_column))]
        ELSE [pos |-> run.pos, line |-> line, column |-> run.column,
              ret |-> InvalidNumberToken(run.n)]

\* the identifier arm, entered after the first letter (at index p) was consumed
alphabetic_arm(in, p, line, col) ==
    LET starting_column == col
        run == keyword_run(in, p, col, <<in[p]>>)
        literal == run.chars
    IN  [pos |-> run.pos, line |-> line, column |-> run.column + 1,
         ret |-> Ok(Token(classify(literal), line, starting_column))]

\* variant: a '-' directly followed by a digit starts a negative literal
punct_arm_fused(in, p, line, col) ==
    IF in[p] = "-" /\ p < Len(in) /\ is_ascii_digit(in[p + 1])
    THEN LET run == digit_run(in, p + 1, col + 1, <<in[p + 1]>>)
             parsed == parse(run.n)
         IN  IF parsed.ok
             THEN [pos |-> run.pos, line |-> line, column |-> run.column + 1,
                   ret |-> Ok(Token(LitInt(0 - parsed.value), line, col))]
             ELSE [pos |-> run.pos, line |-> line, column |-> run.column,
                   ret |-> InvalidNumberToken(<<"-">> \o run.n)]
    ELSE [pos |-> p, line |-> line, column |-> col + 1,
          ret |-> Ok(Token(Operator(OperatorOf(in[p])), line, col))]

\* a single-character arm, entered after the character (at index p) was consumed
punct_arm(in, p, line, col) ==
    [pos |-> p, line |-> line, column |-> col + 1,
     ret |-> Ok(Token(Operator(OperatorOf(in[p])), line, col))]

\* variant: a '<' is a token, "<=" when the peeked character is '='
unsupported_arm_less(in, p, line, col) ==
    IF in[p] = "<"
    THEN [pos |-> p, line |-> line, column |-> col + 1,
          ret |-> Ok(Token(Operator(IF p < Len(in) /\ in[p + 1] = "="
                                    THEN "LessEqual" ELSE "Less"), line, col))]
    ELSE [pos |-> p, line |-> line, column |-> col,
          ret |-> UnsupportedToken(<<in[p]>>)]

\* variant: the column is advanced before the error is returned
unsupported_arm_counted(in, p, line, col) ==
    [pos |-> p, line |-> line, column |-> col + 1,
     ret |-> UnsupportedToken(<<in[p]>>)]

\* variant: the offending character is peeked and left in the stream
unsupported_arm_unconsumed(in, p, line, col) ==
    [pos |-> p - 1, line |-> line, column |-> col,
     ret |-> UnsupportedToken(<<in[p]>>)]

\* the catch-all arm, entered after the character (at index p) was consumed:
\* it returns before the column is advanced
unsupported_arm(in, p, line, col) ==
    [pos |-> p, line |-> line, column |-> col,
     ret |-> UnsupportedToken(<<in[p]>>)]

\* variant: the column is advanced on the way out of the loop
eof_return_advancing(p, line, col) ==
    [pos |-> p, line |-> line, column |-> col + 1,
     ret |-> Ok(Token(Operator("Eof"), line, col + 1))]

\* the value returned when input.next() is None
eof_return(p, line, col) ==
    [pos |-> p, line |-> line, column |-> col,
     ret |-> Ok(Token(Operator("Eof"), line, col))]

(***************************************************************************)
(* read_token: p is the number of characters consumed so far.  The result  *)
(* holds the cursor and the two counters as the call leaves them, and the  *)
(* returned value.                                                         *)
(***************************************************************************)
RECURSIVE read_token(_, _, _, _)
read_token(in, p, line, col) ==
    IF p >= Len(in) THEN eof_return(p, line, col)
    ELSE LET next_char == in[p + 1] IN
         IF is_skipped(next_char)
         THEN IF next_char = " "
              THEN read_token(in, p + 1, line, col + 1)
              ELSE read_token(in, p + 1, line + 1, NewlineColumn + 1)
         ELSE IF next_char \in PunctChars
         THEN punct_arm(in, p + 1, line, col)
         ELSE IF is_ascii_digit(next_char)
         THEN digit_arm(in, p + 1, line, col)
         ELSE IF is_ascii_alphabetic(next_char)
         THEN alphabetic_arm(in, p + 1, line, col)
         ELSE unsupported_arm(in, p + 1, line, col)

(***************************************************************************)
(* Inputs.                                                                 *)
(***************************************************************************)
\* an input of Spec is a concatenation of these characters and Words
Chars == {" ", "\n", "(", "-", "!", "0", "d", "_", "@", "\t"}

Words ==
    { <<"d", "i", "e">>,
      <<"2", "d", "4">>,
      <<"2", "1", "4", "7", "4", "8", "3", "6", "4", "7">>,
      <<"2", "1", "4", "7", "4", "8", "3", "6", "4", "8">>,
      <<"9", "9", "9", "9", "9", "9", "9", "9", "9", "9", "9">> }

Pieces == { <<c>> : c \in Chars } \cup Words

\* an input of SpecPunct is made of the ten punctuation characters, blanks,
\* a digit and a letter
PunctPieces == { <<c>> : c \in PunctChars \cup {" ", "\n", "0", "d"} }

\* an input of SpecWords is made of identifier runs, among them the words
\* that are keywords of the language, and of '<', '=' and '_'
WordPieces ==
    { <<c>> : c \in {" ", "0", "d", "k", "_", "<", "="} } \cup
    { <<"k", "e", "e", "p">>,
      <<"d", "r", "o", "p">>,
      <<"e", "x", "p", "l", "o", "d", "e">>,
      <<"e", "m", "p", "h", "a", "s", "i", "s">>,
      <<"2", "d", "4", "k", "6">>,
      <<"a", "_", "b">> }

\* an input of SpecMain
MainPieces ==
    { <<c>> : c \in {" ", "\n", "0", "d", "@"} } \cup
    { <<"2", "1", "4", "7", "4", "8", "3", "6", "4", "8">> }

RECURSIVE Flatten(_)
Flatten(ps) == IF ps = << >> THEN << >> ELSE Head(ps) \o Flatten(Tail(ps))

(***************************************************************************)
(* State.                                                                  *)
(***************************************************************************)
VARIABLES
    input,           \* the character stream handed to the scanner
    pos,             \* the Peekable<Chars> cursor: characters consumed
    current_line,    \* the caller's line counter
    current_column,  \* the caller's column counter
    result,          \* what the last read_token call returned
    start,           \* the cursor at the time of the last call
    had_error,       \* some call has returned an error
    eof_calls,       \* calls made with the input already exhausted
    calls,           \* calls made so far
    error_ends       \* the cursor values at which a call returned an error

vars == <<input, pos, current_line, current_column, result, start,
          had_error, eof_calls, calls, error_ends>>

\* the caller's set-up: a fresh cursor on the input and both counters at 1
InitOn(pieces) ==
    /\ \E n \in 0..MaxLen : \E ps \in [1..n -> pieces] : input = Flatten(ps)
    /\ pos = 0
    /\ current_line = 1
    /\ current_column = 1
    /\ result = [tag |-> "None"]
    /\ start = 0
    /\ had_error = FALSE
    /\ eof_calls = 0
    /\ calls = 0
    /\ error_ends = {}

Init == InitOn(Pieces)

InitPunct == InitOn(PunctPieces)

InitWords == InitOn(WordPieces)

InitMain == InitOn(MainPieces)

\* one call of read_token on the shared cursor and counters
ReadToken ==
    /\ pos < Len(input) \/ eof_calls < MaxEofCalls
    /\ LET r == read_token(input, pos, current_line, current_column) IN
        /\ pos' = r.pos
        /\ current_line' = r.line
        /\ current_column' = r.column
        /\ result' = r.ret
        /\ had_error' = (had_error \/ r.ret.tag = "Err")
        /\ error_ends' = IF r.ret.tag = "Err" THEN error_ends \cup {r.pos}
                                               ELSE error_ends
    /\ start' = pos
    /\ eof_calls' = IF pos >= Len(input) THEN eof_calls + 1 ELSE eof_calls
    /\ calls' = calls + 1
    /\ UNCHANGED input

Next == ReadToken

Spec == Init /\ [][Next]_vars

\* one iteration of the driver's loop: while input_chars.peek().is_some(),
\* call read_token and print what it returns, token or error
MainLoop ==
    /\ pos < Len(input)
    /\ \E r \in {read_token(input, pos, current_line, current_column)} :
        /\ pos' = r.pos
        /\ current_line' = r.line
        /\ current_column' = r.column
        /\ result' = r.ret
        /\ had_error' = (had_error \/ r.ret.tag = "Err")
        /\ error_ends' = IF r.ret.tag = "Err" THEN error_ends \cup {r.pos}
                                               ELSE error_ends
    /\ start' = pos
    /\ calls' = calls + 1
    /\ UNCHANGED <<input, eof_calls>>

NextMain == MainLoop

\* the driver: the loop runs as long as its condition holds
SpecMain == InitMain /\ [][NextMain]_vars /\ WF_vars(MainLoop)

\* the same scanner on inputs made of identifier runs, '<', '=' and '_'
SpecWords == InitWords /\ [][Next]_vars

\* the same scanner on inputs that cover all ten punctuation characters
SpecPunct == InitPunct /\ [][Next]_vars

(***************************************************************************)
(* Vocabulary of the properties, stated on the input text alone.           *)
(***************************************************************************)
Called == result.tag # "None"

Returned(value) == Called /\ result = value

ReturnedToken == Called /\ result.tag = "Ok"

ReturnedError == Called /\ result.tag = "Err"

IsOperator(op) ==
    /\ ReturnedToken
    /\ result.token.token_type.kind = "Operator"
    /\ result.token.token_type.op = op

IsLiteral(lit) ==
    /\ ReturnedToken
    /\ result.token.token_type.kind = "Literal"
    /\ result.token.token_type.lit = lit

Blank == {" ", "\n"}

\* index of the first character after index p that is neither a space nor
\* a newline; Len(in) + 1 when there is none
RECURSIVE FirstNonBlank(_, _)
FirstNonBlank(in, p) ==
    IF p < Len(in) /\ in[p + 1] \in Blank THEN FirstNonBlank(in, p + 1) ELSE p + 1

\* index of the first character the last call did not skip
TokStart == FirstNonBlank(input, start)

\* the last call reached a character to classify
Reached == Called /\ TokStart <= Len(input)

\* index of the last newline before index k, 0 when there is none
LastNewlineBefore(in, k) ==
    LET nl == {j \in 1..(k - 1) : in[j] = "\n"}
    IN  IF nl = {} THEN 0 ELSE CHOOSE j \in nl : \A i \in nl : i <= j

TrueLine(in, k) == 1 + Cardinality({j \in 1..(k - 1) : in[j] = "\n"})

TrueColumn(in, k) == k - LastNewlineBefore(in, k)

\* index of the last character of the maximal run of characters of class S
\* that begins at index k
RECURSIVE RunEnd(_, _, _)
RunEnd(in, k, S) ==
    IF k < Len(in) /\ in[k + 1] \in S THEN RunEnd(in, k + 1, S) ELSE k

RECURSIVE StripZeros(_)
StripZeros(s) ==
    IF Len(s) > 1 /\ Head(s) = "0" THEN StripZeros(Tail(s)) ELSE s

I32MaxDigits == <<"2", "1", "4", "7", "4", "8", "3", "6", "4", "7">>

\* s and t are digit strings of equal length and s is the greater number
RECURSIVE DigitsGreater(_, _)
DigitsGreater(s, t) ==
    IF s = << >> THEN FALSE
    ELSE IF Head(s) # Head(t) THEN DigitValue(Head(s)) > DigitValue(Head(t))
    ELSE DigitsGreater(Tail(s), Tail(t))

\* the decimal value of the digit string s is greater than 2^31 - 1
ExceedsI32(s) ==
    LET t == StripZeros(s)
    IN  \/ Len(t) > Len(I32MaxDigits)
        \/ Len(t) = Len(I32MaxDigits) /\ DigitsGreater(t, I32MaxDigits)

\* the decimal value of a digit string that does not exceed 2^31 - 1
RECURSIVE DecimalValue(_)
DecimalValue(s) ==
    IF s = << >> THEN 0
    ELSE 10 * DecimalValue(SubSeq(s, 1, Len(s) - 1)) + DigitValue(s[Len(s)])

(***************************************************************************)
(* C1: in a scan started at line 1, column 1 in which no call has returned *)
(* an error, every token with a lexeme carries the true 1-based line and   *)
(* column of the first character of its lexeme.                            *)
(***************************************************************************)
C1_TruePosition ==
    (ReturnedToken /\ ~had_error /\ ~IsOperator("Eof")) =>
        /\ result.token.line = TrueLine(input, TokStart)
        /\ result.token.column = TrueColumn(input, TokStart)

\* a token of several characters, not at the start of its line, on line 2
C1_Witness ==
    /\ ReturnedToken /\ ~had_error
    /\ (IsLiteral("Int") \/ IsLiteral("Unrecognized"))
    /\ pos - TokStart >= 1
    /\ result.token.line = 2
    /\ result.token.column = 3

(***************************************************************************)
(* C2: when the first character a call reaches after the spaces and        *)
(* newlines is not punctuation, not a digit and not a letter, the call     *)
(* returns UnsupportedToken carrying exactly that character and the cursor *)
(* stands just after it.                                                   *)
(***************************************************************************)
C2_UnsupportedCharacter ==
    (Reached /\ input[TokStart] \notin (PunctChars \cup DigitChars \cup LetterChars)) =>
        /\ result = UnsupportedToken(<<input[TokStart]>>)
        /\ pos = TokStart

\* a tab reached after skipped blanks, with input left after it
C2_Witness ==
    /\ ReturnedError
    /\ result.err = "UnsupportedToken"
    /\ result.text = <<"\t">>
    /\ TokStart > start + 1
    /\ pos < Len(input)

(***************************************************************************)
(* C3: after a call that returned an error, current_column is 1 + the      *)
(* number of characters consumed on the current line.                      *)
(***************************************************************************)
C3_ColumnAfterError ==
    ReturnedError =>
        current_column = 1 + (pos - LastNewlineBefore(input, pos + 1))

(***************************************************************************)
(* C4: a maximal digit run whose value exceeds 2^31 - 1 makes the call     *)
(* return InvalidNumberToken carrying the whole run, and a run whose value *)
(* is at most 2^31 - 1 makes it return an Int token, not an error.         *)
(***************************************************************************)
C4_Overflow ==
    (Reached /\ input[TokStart] \in DigitChars) =>
        LET run == SubSeq(input, TokStart, RunEnd(input, TokStart, DigitChars))
        IN  IF ExceedsI32(run)
            THEN result = InvalidNumberToken(run)
            ELSE IsLiteral("Int")

\* the run 2147483648, one more than the largest i32
C4_Witness ==
    /\ ReturnedError
    /\ result.err = "InvalidNumberToken"
    /\ result.text = <<"2", "1", "4", "7", "4", "8", "3", "6", "4", "8">>

\* a '-' at index k directly followed by a digit
MinusThenDigit(in, k) ==
    k < Len(in) /\ in[k] = "-" /\ in[k + 1] \in DigitChars

(***************************************************************************)
(* C5 as stated: a call that reaches a '-' directly followed by a digit    *)
(* returns a Minus token at the true position of the '-', the next call    *)
(* returns an Int token whose column is one greater, and no Int token has  *)
(* a negative payload.                                                     *)
(***************************************************************************)
C5_MinusThenIntAlways ==
    [][ /\ LET k == FirstNonBlank(input, pos) IN
            MinusThenDigit(input, k) =>
                result' = Ok(Token(Operator("Minus"),
                                   TrueLine(input, k), TrueColumn(input, k)))
        /\ (IsOperator("Minus") /\ pos < Len(input) /\ input[pos + 1] \in DigitChars) =>
                /\ result'.tag = "Ok"
                /\ result'.token.token_type.kind = "Literal"
                /\ result'.token.token_type.lit = "Int"
                /\ result'.token.token_type.int >= 0
                /\ result'.token.column = result.token.column + 1
      ]_vars

(***************************************************************************)
(* C5 as amended: a call that reaches a '-' directly followed by a digit   *)
(* consumes the '-' alone and returns a Minus token on the true line of    *)
(* the '-', at its true column when no call has returned an error; the     *)
(* next call consumes                                                      *)
(* the digit run alone and returns a non-negative Int token on the same    *)
(* line whose column is one greater than the Minus token's, or             *)
(* InvalidNumberToken carrying the run when its value exceeds 2^31 - 1.    *)
(***************************************************************************)
C5_MinusThenInt ==
    [][ /\ LET k == FirstNonBlank(input, pos) IN
            MinusThenDigit(input, k) =>
                /\ pos' = k
                /\ result'.tag = "Ok"
                /\ result'.token.token_type = Operator("Minus")
                /\ result'.token.line = TrueLine(input, k)
                /\ ~had_error => result'.token.column = TrueColumn(input, k)
        /\ (IsOperator("Minus") /\ pos < Len(input) /\ input[pos + 1] \in DigitChars) =>
              LET e == RunEnd(input, pos + 1, DigitChars)
                  run == SubSeq(input, pos + 1, e)
              IN  /\ pos' = e
                  /\ IF ExceedsI32(run)
                     THEN result' = InvalidNumberToken(run)
                     ELSE /\ DecimalValue(run) >= 0
                          /\ result' = Ok(Token(LitInt(DecimalValue(run)),
                                                result.token.line,
                                                result.token.column + 1))
      ]_vars

\* an Int token of several digits whose run directly follows a '-'
C5_Witness ==
    /\ IsLiteral("Int")
    /\ start >= 1
    /\ input[start] = "-"
    /\ TokStart = start + 1
    /\ pos > TokStart

(***************************************************************************)
(* C6: a call that reaches a letter consumes the maximal run of letters    *)
(* and underscores that begins there and returns Die(false) for the run    *)
(* "d", Die(true) for the run "die" and Unrecognized carrying the run for  *)
(* any other run; the input "2d4" yields Int(2), Die(false), Int(4) at     *)
(* columns 1, 2 and 3.                                                     *)
(***************************************************************************)
C6_Identifier ==
    /\ (Reached /\ input[TokStart] \in LetterChars) =>
          LET e == RunEnd(input, TokStart, LetterChars \cup {"_"})
              run == SubSeq(input, TokStart, e)
          IN  /\ pos = e
              /\ ReturnedToken
              /\ result.token.token_type =
                    IF run = <<"d">> THEN LitDie(FALSE)
                    ELSE IF run = <<"d", "i", "e">> THEN LitDie(TRUE)
                    ELSE LitUnrecognized(run)
    /\ (Called /\ input = <<"2", "d", "4">> /\ start < Len(input)) =>
          \/ start = 0 /\ pos = 1 /\ result = Ok(Token(LitInt(2), 1, 1))
          \/ start = 1 /\ pos = 2 /\ result = Ok(Token(LitDie(FALSE), 1, 2))
          \/ start = 2 /\ pos = 3 /\ result = Ok(Token(LitInt(4), 1, 3))

\* a run that has the keyword "die" as a proper prefix
C6_Witness ==
    /\ IsLiteral("Unrecognized")
    /\ Len(result.token.token_type.text) > 3
    /\ SubSeq(result.token.token_type.text, 1, 3) = <<"d", "i", "e">>

(***************************************************************************)
(* C7: a call made with the input exhausted returns the Eof token at the   *)
(* current line and column, the same token as the Eof before it, and       *)
(* leaves the cursor and both counters unchanged.                          *)
(***************************************************************************)
C7_EofRepeats ==
    [][ pos >= Len(input) =>
          /\ result' = Ok(Token(Operator("Eof"), current_line, current_column))
          /\ IsOperator("Eof") => result' = result
          /\ pos' = pos
          /\ current_line' = current_line
          /\ current_column' = current_column
      ]_vars

\* Eof returned again after the input, not empty, was exhausted
C7_Witness ==
    /\ eof_calls = MaxEofCalls
    /\ Len(input) > 0
    /\ IsOperator("Eof")

\* the token kind the language gives each punctuation character
KindOfChar ==
    "(" :> "LeftParen" @@ ")" :> "RightParen" @@ "{" :> "LeftBrace" @@
    "}" :> "RightBrace" @@ "+" :> "Plus" @@ "-" :> "Minus" @@
    "*" :> "Star" @@ "/" :> "Slash" @@ "." :> "Dot" @@ "!" :> "Bang"

\* the characters the last call consumed after the blanks it skipped
Lexeme == SubSeq(input, TokStart, pos)

\* s is the text of the value the last call returned
IsLexemeOfResult(s) ==
    IF ReturnedError THEN s = result.text
    ELSE LET t == result.token.token_type IN
         IF t.kind = "Operator"
         THEN IF t.op = "Eof" THEN s = << >>
              ELSE Len(s) = 1 /\ s[1] \in DOMAIN KindOfChar /\ KindOfChar[s[1]] = t.op
         ELSE IF t.lit = "Die"
         THEN s = IF t.die THEN <<"d", "i", "e">> ELSE <<"d">>
         ELSE IF t.lit = "Unrecognized"
         THEN s = t.text
         ELSE /\ s # << >>
              /\ \A i \in 1..Len(s) : s[i] \in DigitChars
              /\ ~ExceedsI32(s)
              /\ DecimalValue(s) = t.int

(***************************************************************************)
(* C8: the cursor only moves forward, each call starts where the call      *)
(* before it stopped, and what a call consumes is a run of spaces and      *)
(* newlines followed by exactly the lexeme of the token, or the offending  *)
(* text of the error, that it returns.                                     *)
(***************************************************************************)
C8_ConsecutiveSlices ==
    Called =>
        /\ start <= pos
        /\ pos <= Len(input)
        /\ TokStart <= pos + 1
        /\ IsLexemeOfResult(Lexeme)

\* a call after the first consumes a lexeme of several characters that ends
\* directly before the next token
C8_Witness ==
    /\ ReturnedToken
    /\ start >= 1
    /\ pos > TokStart
    /\ pos < Len(input)
    /\ input[pos + 1] \notin Blank

(***************************************************************************)
(* C9: a call that reaches one of the ten punctuation characters returns   *)
(* the token of the corresponding kind and consumes that character and     *)
(* nothing after it; when the character is the first of the stream the     *)
(* token is at line 1, column 1.  Checked under SpecPunct.                 *)
(***************************************************************************)
C9_Punctuation ==
    (Reached /\ input[TokStart] \in DOMAIN KindOfChar) =>
        /\ ReturnedToken
        /\ result.token.token_type = Operator(KindOfChar[input[TokStart]])
        /\ pos = TokStart
        /\ TokStart = 1 => (result.token.line = 1 /\ result.token.column = 1)

\* '!' as the first character of a longer stream
C9_Witness ==
    /\ IsOperator("Bang")
    /\ TokStart = 1
    /\ pos = 1
    /\ Len(input) > 1

(***************************************************************************)
(* C10: the lexeme of an Int token is the whole maximal run of digits: no  *)
(* digit precedes it, no digit follows it, and the payload is the decimal  *)
(* value of the run.                                                       *)
(***************************************************************************)
C10_MaximalMunch ==
    IsLiteral("Int") =>
        /\ TokStart <= pos
        /\ \A i \in TokStart..pos : input[i] \in DigitChars
        /\ pos = RunEnd(input, TokStart, DigitChars)
        /\ TokStart = 1 \/ input[TokStart - 1] \notin DigitChars
        /\ ~ExceedsI32(Lexeme)
        /\ result.token.token_type.int = DecimalValue(Lexeme)

\* an eleven-digit run with a leading zero whose value is the largest i32
C10_Witness ==
    /\ IsLiteral("Int")
    /\ Len(Lexeme) = 11
    /\ input[TokStart] = "0"
    /\ result.token.token_type.int = I32Max

(***************************************************************************)
(* C11: a call returns the Eof token exactly when the input left at the    *)
(* time of the call holds only spaces and newlines; the call then consumes *)
(* all of it and the Eof token carries the line and column counters as the *)
(* call leaves them.                                                       *)
(***************************************************************************)
C11_EofIffOnlyBlanks ==
    Called =>
        /\ IsOperator("Eof") <=> (TokStart = Len(input) + 1)
        /\ IsOperator("Eof") =>
              /\ pos = Len(input)
              /\ result.token.line = current_line
              /\ result.token.column = current_column

\* Eof returned by a call that consumed trailing blanks, a newline among them
C11_Witness ==
    /\ IsOperator("Eof")
    /\ start >= 1
    /\ pos > start + 1
    /\ \E i \in (start + 1)..pos : input[i] = "\n"
    /\ result.token.line = 2

\* the maximal run of letters and underscores the last call reached
IdentifierRun == SubSeq(input, TokStart, RunEnd(input, TokStart, LetterChars \cup {"_"}))

ReachedIdentifier == Reached /\ input[TokStart] \in LetterChars

ModifierWords ==
    { <<"k">>, <<"k", "e", "e", "p">>, <<"d", "r", "o", "p">>,
      <<"e", "x", "p", "l", "o", "d", "e">>,
      <<"e", "m", "p", "h", "a", "s", "i", "s">> }

C14_DriverTerminates ==
    /\ [][pos < Len(input) => pos' > pos]_vars
    /\ [](calls <= Len(input))
    /\ <>(pos = Len(input))

\* the loop has ended after errors, with one call per character
C14_Witness ==
    /\ pos = Len(input)
    /\ had_error
    /\ Len(input) >= 3
    /\ calls = Len(input)

\* number of errors returned for text that lies on the line of index k,
\* before k
ErrorsOnLine(k) ==
    Cardinality({e \in error_ends : LastNewlineBefore(input, k) < e /\ e < k})

(***************************************************************************)
(* C15: each error returned on a line leaves current_column one behind, so *)
(* the column counter, and the column of every token later returned on     *)
(* that line, is the true column less the number of errors returned since  *)
(* the last newline; the line counter and the line of every token are      *)
(* always the true line, and a newline restores exact columns.             *)
(***************************************************************************)
C15_ColumnLag ==
    Called =>
        /\ current_line = TrueLine(input, pos + 1)
        /\ current_column = TrueColumn(input, pos + 1) - ErrorsOnLine(pos + 1)
        /\ ReturnedToken =>
              /\ result.token.line = TrueLine(input, TokStart)
              /\ result.token.column =
                    TrueColumn(input, TokStart) - ErrorsOnLine(TokStart)

\* a token returned after two errors on its line
C15_Witness ==
    /\ ReturnedToken
    /\ ~IsOperator("Eof")
    /\ ErrorsOnLine(TokStart) = 2
    /\ result.token.column = TrueColumn(input, TokStart) - 2

(***************************************************************************)
(* C16: an underscore continues an identifier run and never starts one: a  *)
(* run that holds an underscore, such as "a_b" or "d_", is one             *)
(* Unrecognized token carrying the whole run, a call that reaches '_'      *)
(* returns UnsupportedToken carrying "_", and the lexeme of every Die or   *)
(* Unrecognized token begins with a letter and holds only letters and      *)
(* underscores.  Checked under SpecWords.                                  *)
(***************************************************************************)
C16_Underscore ==
    /\ (Reached /\ input[TokStart] = "_") =>
          /\ result = UnsupportedToken(<<"_">>)
          /\ pos = TokStart
    /\ (ReachedIdentifier /\ \E i \in 1..Len(IdentifierRun) : IdentifierRun[i] = "_") =>
          /\ ReturnedToken
          /\ result.token.token_type = LitUnrecognized(IdentifierRun)
          /\ pos = TokStart + Len(IdentifierRun) - 1
    /\ (IsLiteral("Die") \/ IsLiteral("Unrecognized")) =>
          /\ Lexeme # << >>
          /\ Lexeme[1] \in LetterChars
          /\ \A i \in 1..Len(Lexeme) : Lexeme[i] \in LetterChars \cup {"_"}

\* "_d_": the leading '_' was rejected, then "d_" is one Unrecognized token
C16_Witness ==
    /\ IsLiteral("Unrecognized")
    /\ result.token.token_type.text = <<"d", "_">>
    /\ start >= 1
    /\ input[start] = "_"
    /\ start \in error_ends

====
